---- MODULE Spec2Model ----
(***************************************************************************)
(* Model of run_ndr_sdr_pipeline.py: the watershed batcher                 *)
(* (_batch_into_watershed_subsets) and the execute / stitch / cleanup      *)
(* pipeline (_run_sdr, _run_ndr, _execute_sdr_job, _execute_ndr_job,       *)
(* stitch_worker, _clean_workspace_worker).                                *)
(***************************************************************************)
EXTENDS Integers, Sequences, FiniteSets, TLC

(***************************************************************************)
(* Bounds of the model.                                                    *)
(***************************************************************************)
\* number of watershed subsets handed to _run_sdr / _run_ndr
MaxBatches == 2
\* number of entries of target_stitch_raster_map
NOutputs == 2
\* number of tasks the task graph runs at the same time
PoolSize == 2

(***************************************************************************)
(* Program constants.                                                      *)
(***************************************************************************)
N_TO_BUFFER_STITCH == 10

\* capacity of each stitch queue: Queue(N_TO_BUFFER_STITCH*2)
StitchQueueSize == N_TO_BUFFER_STITCH * 2

Batches == 1..MaxBatches
Outputs == 1..NOutputs

\* directory of a local result path relative to the job workspace:
\* "root" for 'sed_export.tif', "sub" for 'intermediate_outputs/...'
RelDirs == {"root", "sub"}

NoPath == <<>>
Skip == [kind |-> "Skip", path |-> NoPath]
Close == [kind |-> "Close", path |-> NoPath]

\* the None that ends the clean workspace worker
NoneDir == <<0, "None">>

VARIABLES
    \* ---- configuration of one _run_sdr / _run_ndr call
    model_kind,               \* "sdr" or "ndr"
    target_stitch_raster_map, \* output -> relative directory of its local result
    keep_intermediate_files,
    watershed_bb,             \* batch -> its bounding box in WGS84
    \* ---- batch tasks (_execute_sdr_job / _execute_ndr_job)
    task_pc, task_next, align_calls, model_calls, sent,
    \* ---- file system
    dirs, files,
    \* ---- stitch workers
    stitch_queue, st_pc, stitch_buffer_list, processed_so_far, received,
    mosaic, writers, merge_errors,
    \* ---- clean workspace worker
    signal_done_queue, clean_pc, count_dict, rmtree_calls, removed, reached,
    \* ---- the thread running _run_sdr / _run_ndr
    main_pc, close_next

cfg_vars == <<model_kind, target_stitch_raster_map, keep_intermediate_files,
              watershed_bb>>
task_vars == <<task_pc, task_next, align_calls, model_calls, sent>>
fs_vars == <<dirs, files>>
stitch_vars == <<stitch_queue, st_pc, stitch_buffer_list, processed_so_far,
                 received, mosaic, writers, merge_errors>>
clean_vars == <<signal_done_queue, clean_pc, count_dict, rmtree_calls,
                removed, reached>>
main_vars == <<main_pc, close_next>>
pipe_vars == <<cfg_vars, task_vars, fs_vars, stitch_vars, clean_vars,
               main_vars>>

\* ---- state of _batch_into_watershed_subsets
VARIABLES
    \* ---- arguments
    min_watershed_area, global_bb, watershed_subset, bulk,
    \* ---- loop state
    batch_pc, collection, layer_read, n_read,
    subbatch_job_index_map, watershed_fid_index,
    job_id_set, watershed_path_area_list, subset_files,
    \* ---- results and log
    sorted_watershed_path_list, done_token, regions_read, dropped_log,
    \* ---- the calls of the batcher: the call in progress, what the first
    \* call read and returned, the _create_fid_subset tasks added so far
    run_no, layers, first_result, subset_task_calls,
    \* ---- the _create_fid_subset tasks added and not yet run
    subset_tasks_pending

batch_args == <<min_watershed_area, global_bb, watershed_subset>>
batch_log == <<regions_read, dropped_log>>
batch_vars == <<batch_args, bulk,
                batch_pc, collection, layer_read, n_read,
                subbatch_job_index_map, watershed_fid_index,
                job_id_set, watershed_path_area_list, subset_files,
                sorted_watershed_path_list, done_token, batch_log,
                run_no, layers, first_result, subset_task_calls,
                   subset_tasks_pending>>

(***************************************************************************)
(* Bounding boxes: <<min_x, min_y, max_x, max_y>>.                         *)
(***************************************************************************)
global_wgs84_bb == <<0, 0, 10, 10>>

\* boxes a batch can have: inside the global box, disjoint from it
BatchBoxes == {<<2, 2, 4, 4>>, <<12, 2, 14, 4>>}

Max2(a, b) == IF a > b THEN a ELSE b
Min2(a, b) == IF a < b THEN a ELSE b

\* the outcome of a call that raised ValueError instead of returning a box
ValueError == <<>>

\* merge_bounding_box_list comparing the latitudes only
merge_bounding_box_list_lat_only(a, b) ==
    LET r == <<Max2(a[1], b[1]), Max2(a[2], b[2]),
               Min2(a[3], b[3]), Min2(a[4], b[4])>>
    IN IF r[2] > r[4] THEN ValueError ELSE r

\* geoprocessing.merge_bounding_box_list(..., 'intersection'): the
\* intersection, or ValueError when the boxes do not intersect
merge_bounding_box_list(a, b) ==
    LET r == <<Max2(a[1], b[1]), Max2(a[2], b[2]),
               Min2(a[3], b[3]), Min2(a[4], b[4])>>
    IN IF r[1] > r[3] \/ r[2] > r[4] THEN ValueError ELSE r

watersheds_intersect(wgs84_bb, bb) ==
    merge_bounding_box_list(wgs84_bb, bb) # ValueError

(***************************************************************************)
(* Paths.                                                                  *)
(***************************************************************************)
\* os.path.join(args['workspace_dir'], local_result_path)
ResultPath(b, o) == <<b, target_stitch_raster_map[o], o>>

\* os.path.dirname(stitch_path)
dirname(path) == <<path[1], path[2]>>

\* every worker given the same global raster
global_stitch_raster_path_shared(o) == 1

\* the global raster an output's worker stitches into
global_stitch_raster_path(o) == o

Mosaics == {global_stitch_raster_path(o) : o \in Outputs}

\* path p lies in the tree rooted at directory d
Under(p, d) == p[1] = d[1] /\ (d[2] = "root" \/ p[2] = d[2])

Dirs == Batches \X RelDirs

\* len(target_stitch_raster_map), passed to _clean_workspace_worker
expected_signal_count == NOutputs

\* a task that has not returned taken as ended
TaskTerminal_any ==
    {"pending", "run", "skip", "emit", "done", "failed", "exited"}

\* a task has ended: it returned, raised or left through sys.exit()
TaskTerminal == {"done", "failed", "exited"}

\* the tasks added to the task graph, one per watershed subset
Tasks == DOMAIN task_pc

Running == {b \in Tasks : task_pc[b] \in {"run", "skip", "emit"}}

\* append every element of sequence s to queue q
Extend(q, s) == q \o s

\* one acknowledgment for a whole flush
DoneSignals_first_only(buf) ==
    IF buf = <<>> THEN <<>> ELSE <<dirname(buf[1].path)>>

\* the directories acknowledged for a flushed buffer, in buffer order
DoneSignals(buf) == [i \in 1..Len(buf) |-> dirname(buf[i].path)]

PathsOf(buf) == {buf[i].path : i \in 1..Len(buf)}

\* collections.defaultdict(int): a mapping with a finite set of keys
EmptyDict == [d \in {} |-> 0]
DictGet(cd, d) == IF d \in DOMAIN cd THEN cd[d] ELSE 0
DictSet(cd, d, n) == [x \in DOMAIN cd \cup {d} |-> IF x = d THEN n ELSE cd[x]]
DictDel(cd, d) == [x \in DOMAIN cd \ {d} |-> cd[x]]

(***************************************************************************)
(* State after _run_sdr / _run_ndr has created the queues, started the     *)
(* stitch workers and the clean worker and added every task.               *)
(***************************************************************************)
\* the tasks of a run over the watershed subsets T, none started
TasksAdded(T) ==
    /\ task_pc = [b \in T |-> "pending"]
    /\ task_next = [b \in T |-> 1]
    /\ align_calls = [b \in T |-> 0]
    /\ model_calls = [b \in T |-> 0]
    /\ sent = [b \in T |-> [o \in Outputs |-> <<>>]]

\* the queues, the stitch workers and the clean worker just started
WorkersStarted ==
    /\ dirs = {}
    /\ files = {}
    /\ stitch_queue = [o \in Outputs |-> <<>>]
    /\ st_pc = [o \in Outputs |-> "get"]
    /\ stitch_buffer_list = [o \in Outputs |-> <<>>]
    /\ processed_so_far = [o \in Outputs |-> 0]
    /\ received = [o \in Outputs |-> <<>>]
    /\ mosaic = [m \in Mosaics |-> <<>>]
    /\ writers = [m \in Mosaics |-> {}]
    /\ merge_errors = [o \in Outputs |-> 0]
    /\ signal_done_queue = <<>>
    /\ clean_pc = "run"
    /\ count_dict = EmptyDict
    /\ rmtree_calls = [d \in Dirs |-> 0]
    /\ removed = {}
    /\ reached = {}
    /\ main_pc = "join"
    /\ close_next = 1

PipeInit ==
    /\ model_kind \in {"sdr", "ndr"}
    /\ target_stitch_raster_map \in [Outputs -> RelDirs]
    /\ keep_intermediate_files \in BOOLEAN
    /\ watershed_bb \in [Batches -> BatchBoxes]
    /\ TasksAdded(Batches)
    /\ WorkersStarted

(***************************************************************************)
(* Batch tasks.                                                            *)
(***************************************************************************)
\* The task graph starts task b: tasks start in priority (insert) order
\* while a pool slot is free.  The task tests the overlap with the global
\* bounding box first (lines 597 and 706).
StartTask(b) ==
    /\ task_pc[b] = "pending"
    /\ \A c \in Tasks : c < b => task_pc[c] # "pending"
    /\ Cardinality(Running) < PoolSize
    /\ task_pc' = [task_pc EXCEPT ![b] =
          IF ~watersheds_intersect(global_wgs84_bb, watershed_bb[b])
          THEN "skip"
          ELSE IF model_kind = "ndr" THEN "exited" ELSE "run"]
    /\ dirs' = IF watersheds_intersect(global_wgs84_bb, watershed_bb[b])
               THEN dirs \cup {<<b, "root">>} ELSE dirs
    /\ UNCHANGED <<batch_vars, cfg_vars, task_next, align_calls, model_calls, sent,
                   files, stitch_vars, clean_vars, main_vars>>

\* _warp_raster_stack, then sdr_c_factor.execute: it writes every local
\* result raster and returns (ok), or raises
RunModel(b, ok) ==
    /\ task_pc[b] = "run"
    /\ align_calls' = [align_calls EXCEPT ![b] = @ + 1]
    /\ model_calls' = [model_calls EXCEPT ![b] = @ + 1]
    /\ IF ok
       THEN /\ task_pc' = [task_pc EXCEPT ![b] = "emit"]
            /\ files' = files \cup {ResultPath(b, o) : o \in Outputs}
            /\ dirs' = dirs \cup {dirname(ResultPath(b, o)) : o \in Outputs}
       ELSE /\ task_pc' = [task_pc EXCEPT ![b] = "failed"]
            /\ UNCHANGED <<files, dirs>>
    /\ UNCHANGED <<batch_vars, cfg_vars, task_next, sent, stitch_vars, clean_vars,
                   main_vars>>

\* the loop of puts reached after a model call that raised as well
PutStates_after_raise == {"skip", "emit", "failed"}

\* where a task is when it runs a loop of puts: lines 599-601 of a task
\* whose watersheds do not overlap, lines 656-658 after the model returned
PutStates == {"skip", "emit"}

\* the skip signalled on the first queue only
Payload_skip_first_only(b, o) ==
    IF task_pc[b] = "skip" /\ o = 1 THEN Skip
    ELSE [kind |-> "Item", path |-> ResultPath(b, o)]

\* the payload a task puts on the queue of output o
Payload(b, o) ==
    IF task_pc[b] = "skip" THEN Skip
    ELSE [kind |-> "Item", path |-> ResultPath(b, o)]

\* a queue that always takes one more payload
QueueFull_never(q, maxsize) == FALSE

\* queue.Queue.full(): a queue of maxsize 0 or less is never full
QueueFull(q, maxsize) == maxsize > 0 /\ Len(q) >= maxsize

\* one stitch_queue.put of the loop over stitch_raster_queue_map.items();
\* the put blocks while the queue is full
TaskPut(b) ==
    /\ task_pc[b] \in PutStates
    /\ LET o == task_next[b] IN
       /\ ~QueueFull(stitch_queue[o], StitchQueueSize)
       /\ stitch_queue' = [stitch_queue EXCEPT ![o] = Append(@, Payload(b, o))]
       /\ sent' = [sent EXCEPT ![b][o] = Append(@, Payload(b, o).kind)]
       /\ task_next' = [task_next EXCEPT ![b] = o + 1]
       /\ task_pc' = [task_pc EXCEPT ![b] = IF o = NOutputs THEN "done" ELSE @]
    /\ UNCHANGED <<batch_vars, cfg_vars, align_calls, model_calls, fs_vars, st_pc,
                   stitch_buffer_list, processed_so_far, received, mosaic,
                   writers, merge_errors, clean_vars, main_vars>>

(***************************************************************************)
(* stitch_worker, one per output.                                          *)
(***************************************************************************)
\* no flush on None
FlushNeeded_threshold_only(buf, payload) ==
    Len(buf) > N_TO_BUFFER_STITCH

\* no flush at all
FlushNeeded_never(buf, payload) == FALSE

\* line 833: flush when the buffer is above the threshold or on None
FlushNeeded(buf, payload) ==
    Len(buf) > N_TO_BUFFER_STITCH \/ payload = Close

\* every payload but None taken as a raster to buffer
IsRaster_any(payload) == payload # Close

\* lines 827-832: a payload that is not None and whose first field is not
\* None is a raster to buffer
IsRaster(payload) == payload.kind = "Item"

\* lines 826-833 and 851: take one payload from the queue; a flush starts
\* the call of geoprocessing.stitch_rasters on the worker's global raster
StitchGet(o) ==
    /\ st_pc[o] = "get"
    /\ stitch_queue[o] # <<>>
    /\ LET payload == Head(stitch_queue[o])
           buf == IF IsRaster(payload)
                  THEN Append(stitch_buffer_list[o], payload)
                  ELSE stitch_buffer_list[o]
           flush == payload.kind # "Skip" /\ FlushNeeded(buf, payload)
       IN
       /\ stitch_queue' = [stitch_queue EXCEPT ![o] = Tail(@)]
       /\ received' = [received EXCEPT ![o] = Append(@, payload)]
       /\ stitch_buffer_list' = [stitch_buffer_list EXCEPT ![o] = buf]
       /\ st_pc' = [st_pc EXCEPT ![o] =
             IF flush THEN (IF payload = Close THEN "merge_last" ELSE "merge")
             ELSE IF payload = Close THEN "done"
             ELSE @]
       /\ writers' = [writers EXCEPT ![global_stitch_raster_path(o)] =
             IF flush THEN @ \cup {o} ELSE @]
       /\ processed_so_far' = [processed_so_far EXCEPT ![o] =
             IF payload.kind = "Skip" \/ (~flush /\ payload # Close)
             THEN @ + 1 ELSE @]
    /\ UNCHANGED <<batch_vars, cfg_vars, task_vars, fs_vars, mosaic,
                   merge_errors, clean_vars, main_vars>>

\* the exception absorbed, the loop goes on
OnMergeError_absorbed == "get"

\* lines 866-869: the handler logs and raises again, the thread ends
OnMergeError == "dead"

\* a handler that acknowledges the buffer before it raises again
AcksOnError_all(buf) == [i \in 1..Len(buf) |-> dirname(buf[i].path)]

\* lines 866-869: the handler logs and raises again; the puts of lines
\* 843-844 come after stitch_rasters and are not reached
AcksOnError(buf) == <<>>

\* the buffer stitched from its last raster to its first
MergeOrder_reversed(buf) ==
    [i \in 1..Len(buf) |-> buf[Len(buf) + 1 - i].path]

\* lines 837-841: stitch_rasters is given stitch_buffer_list as it is and
\* stitches its rasters one after the other, from the first to the last
MergeOrder(buf) == [i \in 1..Len(buf) |-> buf[i].path]

\* lines 837-849: geoprocessing.stitch_rasters returns (ok) or raises; it
\* raises when a raster of the buffer is no longer on disk.  After the merge
\* the directory of every path is put on signal_done_queue and the buffer
\* is cleared.  A merge that raises ends the worker (line 869); what it
\* left in the global raster is not modelled: mosaic keeps the rasters of
\* the merges that returned.
StitchMerge(o, ok) ==
    /\ st_pc[o] \in {"merge", "merge_last"}
    /\ LET buf == stitch_buffer_list[o]
           m == global_stitch_raster_path(o)
       IN
       /\ IF ok /\ PathsOf(buf) \subseteq files
          THEN /\ mosaic' = [mosaic EXCEPT ![m] = @ \o MergeOrder(buf)]
               /\ signal_done_queue' =
                     Extend(signal_done_queue, DoneSignals(buf))
               /\ stitch_buffer_list' = [stitch_buffer_list EXCEPT ![o] = <<>>]
               /\ IF st_pc[o] = "merge_last"
                  THEN /\ st_pc' = [st_pc EXCEPT ![o] = "done"]
                       /\ UNCHANGED processed_so_far
                  ELSE /\ st_pc' = [st_pc EXCEPT ![o] = "get"]
                       /\ processed_so_far' =
                             [processed_so_far EXCEPT ![o] = @ + 1]
               /\ UNCHANGED merge_errors
          ELSE /\ st_pc' = [st_pc EXCEPT ![o] = OnMergeError]
               /\ merge_errors' = [merge_errors EXCEPT ![o] = @ + 1]
               /\ signal_done_queue' =
                     Extend(signal_done_queue, AcksOnError(buf))
               /\ UNCHANGED <<stitch_buffer_list, processed_so_far, mosaic>>
    /\ UNCHANGED <<batch_vars, cfg_vars, task_vars, fs_vars, stitch_queue,
                   received, writers, clean_pc, count_dict, rmtree_calls,
                   removed, reached, main_vars>>

(***************************************************************************)
(* _clean_workspace_worker.                                                *)
(***************************************************************************)
\* removal on the first signal
CountReached_first_signal(n) == n >= 1

\* the count compared one signal too late
CountReached_one_late(n) == n = expected_signal_count + 1

\* line 790: the directory is due for removal
CountReached(n) == n = expected_signal_count

\* the flag ignored
ShouldRemove_always(keep) == TRUE

\* line 794: the tree is removed unless intermediate files are kept
ShouldRemove(keep) == ~keep

\* the entry of a directory left in count_dict at its full count
CountAfterReached_kept(cd, d, n) == DictSet(cd, d, n)

\* line 796: del count_dict[dir_path]
CountAfterReached(cd, d, n) == DictDel(cd, d)

\* a handler inside the loop, which goes on with the next directory
OnRmtreeError_continue == "run"

\* lines 782, 797-798: the try encloses the while loop, so the handler is
\* reached by leaving the loop and the function ends after logging
OnRmtreeError == "dead"

\* lines 785-798: take one directory from the queue.  shutil.rmtree removes
\* the tree (ok) or raises; it raises when the directory does not exist.
\* An exception leaves the loop through the handler of line 797.
CleanGet(ok) ==
    /\ clean_pc = "run"
    /\ signal_done_queue # <<>>
    /\ LET dir_path == Head(signal_done_queue)
           n == DictGet(count_dict, dir_path) + 1
       IN
       /\ signal_done_queue' = Tail(signal_done_queue)
       /\ IF dir_path = NoneDir
          THEN /\ clean_pc' = "done"
               /\ UNCHANGED <<count_dict, rmtree_calls, removed, reached,
                              fs_vars>>
          ELSE IF ~CountReached(n)
          THEN /\ count_dict' = DictSet(count_dict, dir_path, n)
               /\ UNCHANGED <<clean_pc, rmtree_calls, removed, reached,
                              fs_vars>>
          ELSE /\ reached' = reached \cup {dir_path}
               /\ IF ~ShouldRemove(keep_intermediate_files)
                  THEN /\ count_dict' =
                             CountAfterReached(count_dict, dir_path, n)
                       /\ UNCHANGED <<clean_pc, rmtree_calls, removed,
                                      fs_vars>>
                  ELSE /\ rmtree_calls' =
                             [rmtree_calls EXCEPT ![dir_path] = @ + 1]
                       /\ IF ok /\ dir_path \in dirs
                          THEN /\ dirs' = {d \in dirs :
                                     ~Under(<<d[1], d[2], 0>>, dir_path)}
                               /\ files' = {p \in files : ~Under(p, dir_path)}
                               /\ removed' = removed \cup {dir_path}
                               /\ count_dict' = CountAfterReached(
                                     count_dict, dir_path, n)
                               /\ UNCHANGED clean_pc
                          ELSE /\ clean_pc' = OnRmtreeError
                               /\ count_dict' =
                                     DictSet(count_dict, dir_path, n)
                               /\ UNCHANGED <<removed, fs_vars>>
    /\ UNCHANGED <<batch_vars, cfg_vars, task_vars, stitch_vars, main_vars>>

(***************************************************************************)
(* The thread running _run_sdr / _run_ndr, after the tasks were added.     *)
(***************************************************************************)
\* task_graph.join() (lines 545, 968): returns when every task has ended,
\* raises when a task failed
MainJoin ==
    /\ main_pc = "join"
    /\ \A b \in Tasks : task_pc[b] \in TaskTerminal
    /\ main_pc' = IF \E b \in Tasks : task_pc[b] \in {"failed", "exited"}
                  THEN "raised" ELSE "close"
    /\ UNCHANGED <<batch_vars, cfg_vars, task_vars, fs_vars, stitch_vars, clean_vars,
                   close_next>>

\* lines 546-547: stitch_queue.put(None), one queue after the other
MainClose ==
    /\ main_pc = "close"
    /\ LET o == close_next IN
       /\ Len(stitch_queue[o]) < StitchQueueSize
       /\ stitch_queue' = [stitch_queue EXCEPT ![o] = Append(@, Close)]
       /\ close_next' = o + 1
       /\ main_pc' = IF o = NOutputs THEN "join_stitch" ELSE main_pc
    /\ UNCHANGED <<batch_vars, cfg_vars, task_vars, fs_vars, st_pc, stitch_buffer_list,
                   processed_so_far, received, mosaic, writers, merge_errors, clean_vars>>

\* lines 549-553: join every stitch thread, then signal_done_queue.put(None)
MainJoinStitch ==
    /\ main_pc = "join_stitch"
    /\ \A o \in Outputs : st_pc[o] \in {"done", "dead"}
    /\ signal_done_queue' = Append(signal_done_queue, NoneDir)
    /\ main_pc' = "join_clean"
    /\ UNCHANGED <<batch_vars, cfg_vars, task_vars, fs_vars, stitch_vars, clean_pc,
                   count_dict, rmtree_calls, removed, reached, close_next>>

\* a thread left through its handler taken as still running
CleanEnded_return_only == {"done"}

\* the clean worker thread has ended: it returned on None (line 787) or left
\* the loop through the handler of lines 797-798
CleanEnded == {"done", "dead"}

\* line 554: clean_workspace_worker.join()
MainJoinClean ==
    /\ main_pc = "join_clean"
    /\ clean_pc \in CleanEnded
    /\ main_pc' = "done"
    /\ UNCHANGED <<batch_vars, cfg_vars, task_vars, fs_vars, stitch_vars, clean_vars,
                   close_next>>

PipeNext ==
    \/ \E b \in Batches : StartTask(b)
    \/ \E b \in Batches, ok \in BOOLEAN : RunModel(b, ok)
    \/ \E b \in Batches : TaskPut(b)
    \/ \E o \in Outputs : StitchGet(o)
    \/ \E o \in Outputs, ok \in BOOLEAN : StitchMerge(o, ok)
    \/ \E ok \in BOOLEAN : CleanGet(ok)
    \/ MainJoin
    \/ MainClose
    \/ MainJoinStitch
    \/ MainJoinClean

(***************************************************************************)
(* _batch_into_watershed_subsets.                                          *)
(*                                                                         *)
(* Areas are in thousandths of a square degree, coordinates in degrees.    *)
(***************************************************************************)
\* bounds of the batcher
MaxCollections == 2
MaxRegions == 3

\* one square degree (line 293: watershed_geom.Area() > 1)
SqDegree == 1000

\* line 307: len(watershed_fid_index[job_id][0]) > 1000
MaxFidsPerJob == 1000

\* run_scenario passes 4 as degree_separation (line 1059)
degree_separation == 4

\* no filter box
NoBB == <<>>

\* the filter box of a run that has one: <<min_lng, min_lat, max_lng, max_lat>>
FilterBox == <<-10, -10, 10, 10>>

\* The features a layer can hold.  bb is [min_x, min_y, max_x, max_y]
\* (line 313), cx / cy the centroid.
Features == {
    [fid |-> 1, area |-> 100, cx |-> 1, cy |-> 1, bb |-> <<0, 0, 2, 2>>],
    [fid |-> 2, area |-> 100, cx |-> 1, cy |-> 1, bb |-> <<0, 0, 3, 3>>],
    [fid |-> 3, area |-> 1500, cx |-> 5, cy |-> 1, bb |-> <<4, 0, 6, 2>>],
    [fid |-> 4, area |-> 100, cx |-> 1, cy |-> 1, bb |-> <<-11, 0, 2, 2>>],
    [fid |-> 6, area |-> 100, cx |-> 5, cy |-> 9, bb |-> <<4, 8, 6, 11>>],
    [fid |-> 7, area |-> 100, cx |-> 7, cy |-> 9, bb |-> <<6, 8, 11, 10>>],
    [fid |-> 32631, area |-> 1100, cx |-> 7, cy |-> 1, bb |-> <<6, 0, 8, 2>>]}

\* The i-th feature of a layer that starts with a run of small watersheds
\* sharing one grid cell and one UTM zone.
BulkFeature(i) ==
    [fid |-> 100000 + i, area |-> 1, cx |-> 1, cy |-> 1, bb |-> <<0, 0, 1, 1>>]

\* the feature a fid names
FeatureOf(fid) ==
    IF fid > 100000
    THEN BulkFeature(fid - 100000)
    ELSE CHOOSE f \in Features : f.fid = fid

\* lines 312-313: the envelope of the feature a fid names
EnvelopeOf(fid) == FeatureOf(fid).bb

\* os.path.splitext(os.path.basename(watershed_path))[0] of the c-th file,
\* as the sequence of the fields that '_' separates
watershed_basename(c) ==
    IF c = 1 THEN <<100>>
    ELSE IF c = 2 THEN <<100, 0, 0, 0>>
    ELSE <<100 + c>>

\* geoprocessing.get_utm_zone(lng, lat)
get_utm_zone(lng, lat) ==
    LET utm_code == (((lng + 180) \div 6) % 60) + 1
        lat_code == IF lat > 0 THEN 6 ELSE 7
    IN 32000 + lat_code * 100 + utm_code

\* line 300: int(v//degree_separation)*degree_separation
Clamp(v) == (v \div degree_separation) * degree_separation

\* lines 314-317
OnDangerousBoundary(bb, gbb) ==
    /\ gbb # NoBB
    /\ \/ bb[1] < gbb[1]
       \/ bb[3] > gbb[3]
       \/ bb[2] > gbb[4]
       \/ bb[4] < gbb[2]

\* ---- watershed_fid_index: a defaultdict kept in insertion order; an entry
\* is [key, fids, envs, area] with key = <<job_id, epsg>>
NewEntry(key) == [key |-> key, fids |-> <<>>, envs |-> <<>>, area |-> 0]

IndexOf(index, key) ==
    IF \E i \in 1..Len(index) : index[i].key = key
    THEN CHOOSE i \in 1..Len(index) : index[i].key = key
    ELSE 0

\* reading index[key] creates the entry
Touch(index, key) ==
    IF IndexOf(index, key) = 0 THEN Append(index, NewEntry(key)) ELSE index

FidsOf(index, key) ==
    IF IndexOf(index, key) = 0 THEN <<>> ELSE index[IndexOf(index, key)].fids

\* every job taken as full
JobIsFull_always(fid_list) == TRUE

\* line 307
JobIsFull(fid_list) == Len(fid_list) > MaxFidsPerJob

\* the selection of a subset ignored
IsImmediate_area_only(f) == f.area > SqDegree

\* line 293: watershed_geom.Area() > 1 or watershed_ids
IsImmediate(f) == f.area > SqDegree \/ watershed_subset

\* lines 293-311: the job key of a feature, the overflow counter and the
\* index after the feature's fid was recorded
Assign(f, c, sub, index) ==
    LET epsg == get_utm_zone(f.cx, f.cy) IN
    IF IsImmediate(f)
    THEN LET key == <<watershed_basename(c) \o <<f.fid>>, epsg>>
             ix == Touch(index, key)
         IN [key |-> key, sub |-> sub,
             index |-> [ix EXCEPT ![IndexOf(ix, key)].fids = <<f.fid>>]]
    ELSE LET base_job_id == watershed_basename(c) \o <<Clamp(f.cx), Clamp(f.cy)>>
             n == DictGet(sub, base_job_id)
             key0 == <<base_job_id \o <<n, epsg>>, epsg>>
             ix0 == Touch(index, key0)
             full == JobIsFull(FidsOf(ix0, key0))
             n1 == IF full THEN n + 1 ELSE n
             key1 == <<base_job_id \o <<n1, epsg>>, epsg>>
             ix1 == Touch(ix0, key1)
         IN [key |-> key1, sub |-> DictSet(sub, base_job_id, n1),
             index |-> [ix1 EXCEPT ![IndexOf(ix1, key1)].fids =
                                       Append(@, f.fid)]]

\* the drop taking the oldest fid of the job instead of the last
Record_pop_first(f, key, index) ==
    LET i == IndexOf(index, key) IN
    IF OnDangerousBoundary(f.bb, global_bb)
    THEN [index EXCEPT ![i].fids = SubSeq(@, 2, Len(@))]
    ELSE [index EXCEPT ![i].envs = Append(@, f.bb), ![i].area = @ + f.area]

\* lines 312-323: drop the feature (pop its fid) or record envelope and area
Record(f, key, index) ==
    LET i == IndexOf(index, key) IN
    IF OnDangerousBoundary(f.bb, global_bb)
    THEN [index EXCEPT ![i].fids = SubSeq(@, 1, Len(@) - 1)]
    ELSE [index EXCEPT ![i].envs = Append(@, f.bb), ![i].area = @ + f.area]

\* ---- sorting
\* sorted(..., key=area, reverse=True) is stable: equal areas keep their order
InsertByArea(sorted, e) ==
    LET k == Cardinality({i \in 1..Len(sorted) : sorted[i].area >= e.area})
    IN SubSeq(sorted, 1, k) \o <<e>> \o SubSeq(sorted, k + 1, Len(sorted))

RECURSIVE SortByArea(_, _)
SortByArea(seq, n) ==
    IF n = 0 THEN <<>> ELSE InsertByArea(SortByArea(seq, n - 1), seq[n])

RECURSIVE LexLess(_, _)
LexLess(a, b) ==
    IF a = <<>> THEN b # <<>>
    ELSE IF b = <<>> THEN FALSE
    ELSE IF Head(a) = Head(b) THEN LexLess(Tail(a), Tail(b))
    ELSE Head(a) < Head(b)

\* a subset path f'{job_id}_a{area:.3f}.gpkg' is <<job_id, area>>; paths
\* compare field by field
PathLess(p, q) == LexLess(p[1] \o <<p[2]>>, q[1] \o <<q[2]>>)

\* order of the (area, path) tuples of watershed_path_area_list
TupleLess(a, b) ==
    a.area < b.area \/ (a.area = b.area /\ PathLess(a.path, b.path))

\* line 367: sorted(watershed_path_area_list, reverse=True)
InsertByTuple(sorted, e) ==
    LET k == Cardinality({i \in 1..Len(sorted) : ~TupleLess(sorted[i], e)})
    IN SubSeq(sorted, 1, k) \o <<e>> \o SubSeq(sorted, k + 1, Len(sorted))

RECURSIVE SortByTuple(_, _)
SortByTuple(seq, n) ==
    IF n = 0 THEN <<>> ELSE InsertByTuple(SortByTuple(seq, n - 1), seq[n])

\* the per-collection order returned as it is
GlobalSort_none(list) == list

GlobalSort(list) == SortByTuple(list, Len(list))

\* ---- lines 332-353: the loop over the jobs of one collection
\* no check for a job id seen before
AlreadyProcessed_never(job_id, ids) == FALSE

\* line 336
AlreadyProcessed(job_id, ids) == job_id \in ids

\* the number of envelopes not looked at
TooSmall_area_only(e) == e.area < min_watershed_area

\* line 338
TooSmall(e) == Len(e.envs) < 3 /\ e.area < min_watershed_area

\* the subset file taken as missing whatever the directory holds
PathExists_never(path, on_disk) == FALSE

\* line 345: os.path.exists(watershed_subset_path)
PathExists(path, on_disk) == path \in on_disk

RECURSIVE EmitLoop(_, _, _, _)
EmitLoop(entries, i, c, st) ==
    IF i > Len(entries) \/ st.raised THEN st
    ELSE LET e == entries[i]
             job_id == e.key[1]
             path == <<job_id, e.area>>
         IN IF AlreadyProcessed(job_id, st.ids)
            THEN [st EXCEPT !.raised = TRUE]
            ELSE IF TooSmall(e)
            THEN EmitLoop(entries, i + 1, c, st)
            ELSE EmitLoop(entries, i + 1, c,
                     [raised |-> FALSE,
                      ids |-> st.ids \cup {job_id},
                      files |-> st.files,
                      calls |-> IF PathExists(path, st.files)
                                THEN st.calls ELSE Append(st.calls, path),
                      list |-> Append(st.list,
                          [area |-> e.area, path |-> path, fids |-> e.fids,
                           epsg |-> e.key[2], collection |-> c])])

BatchInit ==
    /\ min_watershed_area \in {0, 500}
    /\ global_bb \in {NoBB, FilterBox}
    /\ watershed_subset \in BOOLEAN
    /\ bulk \in {0, MaxFidsPerJob}
    /\ bulk > 0 => ~watershed_subset
    /\ batch_pc = "glob"
    /\ collection = 0
    /\ layer_read = {}
    /\ n_read = 0
    /\ subbatch_job_index_map = EmptyDict
    /\ watershed_fid_index = <<>>
    /\ job_id_set = {}
    /\ watershed_path_area_list = <<>>
    /\ subset_files = {}
    /\ sorted_watershed_path_list = <<>>
    /\ done_token = FALSE
    /\ regions_read = {}
    /\ dropped_log = {}
    /\ run_no = 1
    /\ layers = <<>>
    /\ first_result = <<>>
    /\ subset_task_calls = <<>>
    /\ subset_tasks_pending = {}

\* lines 263-275: the next '*.shp' file of the glob; a second call finds the
\* files the first call found
OpenCollection ==
    /\ batch_pc = "glob"
    /\ IF run_no = 1 THEN collection < MaxCollections
                     ELSE collection < Len(layers)
    /\ collection' = collection + 1
    /\ batch_pc' = "layer"
    /\ layer_read' = {}
    /\ subbatch_job_index_map' = EmptyDict
    /\ watershed_fid_index' = <<>>
    /\ layers' = IF run_no = 1
                 THEN Append(layers, [bulk |-> bulk, fids |-> <<>>])
                 ELSE layers
    /\ bulk' = IF run_no = 1 THEN bulk ELSE layers[collection + 1].bulk
    /\ UNCHANGED <<pipe_vars, batch_args, n_read, job_id_set,
                   watershed_path_area_list, subset_files,
                   sorted_watershed_path_list, done_token, batch_log,
                   run_no, first_result, subset_task_calls,
                   subset_tasks_pending>>

\* lines 287-323: one iteration of the loop over the layer
ReadStep(f) ==
    LET a == Assign(f, collection, subbatch_job_index_map, watershed_fid_index)
    IN /\ subbatch_job_index_map' = a.sub
       /\ watershed_fid_index' = Record(f, a.key, a.index)
       /\ regions_read' = regions_read \cup {<<collection, f.fid>>}
       /\ dropped_log' = IF OnDangerousBoundary(f.bb, global_bb)
                         THEN dropped_log \cup {<<collection, f.fid>>}
                         ELSE dropped_log

ReadBulkFeature ==
    /\ batch_pc = "layer"
    /\ bulk > 0
    /\ ReadStep(BulkFeature(bulk))
    /\ bulk' = bulk - 1
    /\ UNCHANGED <<pipe_vars, batch_args, batch_pc, collection, layer_read,
                   n_read, job_id_set, watershed_path_area_list, subset_files,
                   sorted_watershed_path_list, done_token,
                   run_no, layers, first_result, subset_task_calls,
                   subset_tasks_pending>>

\* The loop over a layer yields its features by ascending fid (line 287);
\* the list of a selected subset (line 282) is taken in ascending order
\* too.  The layer of a second call holds the features of the first, in
\* the same order.
ReadFeature(f) ==
    /\ batch_pc = "layer"
    /\ bulk = 0
    /\ f.fid \notin layer_read
    /\ \A fid \in layer_read : fid < f.fid
    /\ IF run_no = 1
       THEN /\ n_read < MaxRegions
            /\ layers' = [layers EXCEPT ![collection].fids = Append(@, f.fid)]
       ELSE /\ Cardinality(layer_read) < Len(layers[collection].fids)
            /\ f.fid = layers[collection].fids[Cardinality(layer_read) + 1]
            /\ UNCHANGED layers
    /\ ReadStep(f)
    /\ layer_read' = layer_read \cup {f.fid}
    /\ n_read' = n_read + 1
    /\ UNCHANGED <<pipe_vars, batch_args, bulk, batch_pc, collection,
                   job_id_set, watershed_path_area_list, subset_files,
                   sorted_watershed_path_list, done_token,
                   run_no, first_result, subset_task_calls,
                   subset_tasks_pending>>

\* lines 332-353: the layer is exhausted; emit the jobs of this collection
EmitCollection ==
    /\ batch_pc = "layer"
    /\ bulk = 0
    /\ run_no = 2 => Cardinality(layer_read) = Len(layers[collection].fids)
    /\ LET st == EmitLoop(
                SortByArea(watershed_fid_index, Len(watershed_fid_index)),
                1, collection,
                [raised |-> FALSE, ids |-> job_id_set, files |-> subset_files,
                 calls |-> subset_task_calls,
                 list |-> watershed_path_area_list])
       IN /\ batch_pc' = IF st.raised THEN "raised" ELSE "glob"
          /\ job_id_set' = st.ids
          /\ subset_tasks_pending' = subset_tasks_pending \cup
                {st.calls[i] : i \in
                    (Len(subset_task_calls) + 1)..Len(st.calls)}
          /\ subset_task_calls' = st.calls
          /\ watershed_path_area_list' = st.list
    /\ UNCHANGED <<pipe_vars, batch_args, bulk, collection, layer_read,
                   n_read, subbatch_job_index_map, watershed_fid_index,
                   subset_files, sorted_watershed_path_list, done_token,
                   batch_log, run_no, layers, first_result>>

\* the join not waiting for the tasks
JoinReturns_at_once(pending) == TRUE

\* line 358: task_graph.join() returns when every task added has run
JoinReturns(pending) == pending = {}

\* lines 346-351, 371-391: a worker of the task graph runs one
\* _create_fid_subset task, which writes its target file
CreateFidSubset(path) ==
    /\ path \in subset_tasks_pending
    /\ subset_tasks_pending' = subset_tasks_pending \ {path}
    /\ subset_files' = subset_files \cup {path}
    /\ UNCHANGED <<pipe_vars, batch_args, bulk, batch_pc, collection,
                   layer_read, n_read, subbatch_job_index_map,
                   watershed_fid_index, job_id_set, watershed_path_area_list,
                   sorted_watershed_path_list, done_token, batch_log,
                   run_no, layers, first_result, subset_task_calls>>

\* lines 358-368: join the task graph, write the token, sort and return
FinishBatching ==
    /\ batch_pc = "glob"
    /\ JoinReturns(subset_tasks_pending)
    /\ run_no = 2 => collection = Len(layers)
    /\ batch_pc' = "done"
    /\ done_token' = TRUE
    /\ sorted_watershed_path_list' = GlobalSort(watershed_path_area_list)
    /\ first_result' = IF run_no = 1
                       THEN GlobalSort(watershed_path_area_list)
                       ELSE first_result
    /\ UNCHANGED <<pipe_vars, batch_args, bulk, collection, layer_read,
                   n_read, subbatch_job_index_map, watershed_fid_index,
                   job_id_set, watershed_path_area_list, subset_files,
                   batch_log, run_no, layers, subset_task_calls,
                   subset_tasks_pending>>

\* _batch_into_watershed_subsets is called again with the arguments and the
\* directory of the call that returned: lines 258-262 run again, the subset
\* files and the token are on disk.  The second call is followed for the
\* layers that do not start with the run of small watersheds.
CallAgain ==
    /\ batch_pc = "done"
    /\ run_no = 1
    /\ \A c \in 1..Len(layers) : layers[c].bulk = 0
    /\ run_no' = 2
    /\ batch_pc' = "glob"
    /\ collection' = 0
    /\ layer_read' = {}
    /\ n_read' = 0
    /\ subbatch_job_index_map' = EmptyDict
    /\ watershed_fid_index' = <<>>
    /\ job_id_set' = {}
    /\ watershed_path_area_list' = <<>>
    /\ sorted_watershed_path_list' = <<>>
    /\ UNCHANGED <<pipe_vars, batch_args, bulk, subset_files, done_token,
                   batch_log, layers, first_result, subset_task_calls,
                   subset_tasks_pending>>

\* run_scenario runs again (lines 1056-1067): the task graph finds the token
\* of target_path_list and the same arguments, does not call the batcher and
\* get() returns the stored result
GetStoredResult ==
    /\ batch_pc = "done"
    /\ run_no = 1
    /\ done_token
    /\ run_no' = 2
    /\ UNCHANGED <<pipe_vars, batch_args, bulk, batch_pc, collection,
                   layer_read, n_read, subbatch_job_index_map,
                   watershed_fid_index, job_id_set, watershed_path_area_list,
                   subset_files, sorted_watershed_path_list, done_token,
                   batch_log, layers, first_result, subset_task_calls,
                   subset_tasks_pending>>

BatchNext ==
    \/ OpenCollection
    \/ ReadBulkFeature
    \/ \E f \in Features : ReadFeature(f)
    \/ EmitCollection
    \/ FinishBatching
    \/ CallAgain
    \/ GetStoredResult
    \/ \E path \in subset_tasks_pending : CreateFidSubset(path)

(***************************************************************************)
(* One stitch worker fed by its producers: any sequence of at most         *)
(* MaxMessages Item and Skip payloads, then None.                          *)
(***************************************************************************)
MaxMessages == 13

\* the worker under test
TheOutput == CHOOSE o \in Outputs : \A p \in Outputs : o <= p

\* number of payloads put on the queue of output o so far
NPut(o) == Len(received[o]) + Len(stitch_queue[o])

\* a task that ran the model puts its result raster (line 657)
ProducerPutItem ==
    /\ main_pc = "join"
    /\ NPut(TheOutput) < MaxMessages
    /\ Len(stitch_queue[TheOutput]) < StitchQueueSize
    /\ LET path == ResultPath(NPut(TheOutput) + 1, TheOutput) IN
       /\ files' = files \cup {path}
       /\ dirs' = dirs \cup {dirname(path)}
       /\ stitch_queue' = [stitch_queue EXCEPT ![TheOutput] =
             Append(@, [kind |-> "Item", path |-> path])]
    /\ UNCHANGED <<batch_vars, cfg_vars, task_vars, st_pc, stitch_buffer_list,
                   processed_so_far, received, mosaic, writers, merge_errors, clean_vars,
                   main_vars>>

\* a task whose watersheds do not overlap puts (None, 1) (line 601)
ProducerPutSkip ==
    /\ main_pc = "join"
    /\ NPut(TheOutput) < MaxMessages
    /\ Len(stitch_queue[TheOutput]) < StitchQueueSize
    /\ stitch_queue' = [stitch_queue EXCEPT ![TheOutput] = Append(@, Skip)]
    /\ UNCHANGED <<batch_vars, cfg_vars, task_vars, fs_vars, st_pc,
                   stitch_buffer_list, processed_so_far, received, mosaic,
                   writers, merge_errors, clean_vars, main_vars>>

\* line 547: stitch_queue.put(None) once the tasks have ended
ProducerClose ==
    /\ main_pc = "join"
    /\ Len(stitch_queue[TheOutput]) < StitchQueueSize
    /\ stitch_queue' = [stitch_queue EXCEPT ![TheOutput] = Append(@, Close)]
    /\ main_pc' = "join_stitch"
    /\ UNCHANGED <<batch_vars, cfg_vars, task_vars, fs_vars, st_pc,
                   stitch_buffer_list, processed_so_far, received, mosaic,
                   writers, merge_errors, clean_vars, close_next>>

StitchNext ==
    \/ ProducerPutItem
    \/ ProducerPutSkip
    \/ ProducerClose
    \/ StitchGet(TheOutput)
    \/ \E ok \in BOOLEAN : StitchMerge(TheOutput, ok)

(***************************************************************************)
(* Specifications.                                                         *)
(***************************************************************************)
vars == <<pipe_vars, batch_vars>>

\* the batcher before its first step, for the specification of the pipeline
BatchIdle ==
    /\ min_watershed_area = 0
    /\ global_bb = NoBB
    /\ watershed_subset = FALSE
    /\ bulk = 0
    /\ BatchInit

\* the pipeline before its first step, for the specification of the batcher
PipeIdle ==
    /\ model_kind = "sdr"
    /\ target_stitch_raster_map = [o \in Outputs |-> "root"]
    /\ keep_intermediate_files = FALSE
    /\ watershed_bb = [b \in Batches |-> <<2, 2, 4, 4>>]
    /\ PipeInit

Init == PipeInit /\ BatchIdle

Next == PipeNext

\* the execute / stitch / cleanup pipeline
Spec == Init /\ [][Next]_vars

\* The pipeline when no model call, merge or removal raises.  Every task is
\* a process of the pool and every worker a thread: the scheduler runs a
\* unit that can take a step.
NextNoFault ==
    \/ \E b \in Batches : StartTask(b)
    \/ \E b \in Batches : RunModel(b, TRUE)
    \/ \E b \in Batches : TaskPut(b)
    \/ \E o \in Outputs : StitchGet(o)
    \/ \E o \in Outputs : StitchMerge(o, TRUE)
    \/ CleanGet(TRUE)
    \/ MainJoin
    \/ MainClose
    \/ MainJoinStitch
    \/ MainJoinClean

\* some unit that can take a step takes one
Fairness == WF_vars(NextNoFault)

SpecNoFault == Init /\ [][NextNoFault]_vars /\ Fairness

\* the pipeline with its faults, some unit that can take a step taking one
SpecFair == Init /\ [][Next]_vars /\ WF_vars(Next)

InitBatch == BatchInit /\ PipeIdle

NextBatch == BatchNext

\* the batcher
SpecBatch == InitBatch /\ [][NextBatch]_vars

InitStitch == PipeIdle /\ BatchIdle

NextStitch == StitchNext

\* one stitch worker and its producers
SpecStitch == InitStitch /\ [][NextStitch]_vars

(***************************************************************************)
(* Properties.                                                             *)
(***************************************************************************)
\* the rasters merged into the global raster of output o
MergedBy(o) ==
    LET m == mosaic[global_stitch_raster_path(o)]
    IN {m[i] : i \in 1..Len(m)}

\* the Item paths worker o still has to merge
PendingPaths(o) ==
    {stitch_queue[o][i].path : i \in {j \in 1..Len(stitch_queue[o]) :
                                       stitch_queue[o][j].kind = "Item"}}
    \cup PathsOf(stitch_buffer_list[o])

Merging(o) == st_pc[o] \in {"merge", "merge_last"}

\* two boxes with no common point
DisjointBoxes(a, g) == a[3] < g[1] \/ a[1] > g[3] \/ a[4] < g[2] \/ a[2] > g[4]

KindsSent(b, o) == {sent[b][o][i] : i \in 1..Len(sent[b][o])}

\* C1: a scratch directory is removed only after the worker of every output
\* whose raster lies in it has merged that raster, and a raster a worker
\* still has to merge is on disk.
C1_NoRemovalBeforeMerge ==
    /\ \A d \in removed : \A o \in Outputs :
          Under(ResultPath(d[1], o), d) => ResultPath(d[1], o) \in MergedBy(o)
    /\ \A o \in Outputs :
          st_pc[o] # "dead" => PendingPaths(o) \subseteq files

\* C1 witness: a directory was removed after every worker merged its raster
C1_Witness ==
    \E d \in removed : \A o \in Outputs :
        /\ Under(ResultPath(d[1], o), d)
        /\ ResultPath(d[1], o) \in MergedBy(o)

C5_OneWriterPerMosaic ==
    \A m \in Mosaics :
        /\ Cardinality(writers[m]) <= 1
        /\ Cardinality({o \in Outputs :
              global_stitch_raster_path(o) = m /\ Merging(o)}) <= 1

\* C5 witness: two workers merge at the same time, each into its own raster
C5_Witness ==
    \E o1, o2 \in Outputs :
        /\ o1 # o2
        /\ Merging(o1) /\ Merging(o2)
        /\ writers[global_stitch_raster_path(o1)] = {o1}

\* C6: a task that ended without raising has put exactly one payload on
\* every queue: Item on all of them after the model ran, Skip on all of
\* them for a disjoint batch; no queue ever gets two payloads of one task
\* and no task ever puts both kinds.
C6_OnePayloadPerQueue ==
    \A b \in Batches :
        /\ \A o \in Outputs : Len(sent[b][o]) <= 1
        /\ Cardinality(UNION {KindsSent(b, o) : o \in Outputs}) <= 1
        /\ task_pc[b] = "done" =>
              /\ \A o \in Outputs : Len(sent[b][o]) = 1
              /\ \A o \in Outputs : KindsSent(b, o) =
                    IF DisjointBoxes(watershed_bb[b], global_wgs84_bb)
                    THEN {"Skip"} ELSE {"Item"}
              /\ ~DisjointBoxes(watershed_bb[b], global_wgs84_bb)
                    => model_calls[b] = 1

\* C6 witness: one task has put an Item on every queue, another a Skip
C6_Witness ==
    \E b1, b2 \in Batches :
        /\ task_pc[b1] = "done" /\ task_pc[b2] = "done"
        /\ \A o \in Outputs : sent[b1][o] = <<"Item">>
        /\ \A o \in Outputs : sent[b2][o] = <<"Skip">>

\* C7: a batch whose box is disjoint from the global box never reaches the
\* alignment or the model and puts nothing but Skip, one on every queue.
C7_DisjointBatchSkips ==
    \A b \in Batches :
        DisjointBoxes(watershed_bb[b], global_wgs84_bb) =>
            /\ align_calls[b] = 0
            /\ model_calls[b] = 0
            /\ task_pc[b] \in {"pending", "skip", "done"}
            /\ \A o \in Outputs : KindsSent(b, o) \subseteq {"Skip"}
            /\ task_pc[b] = "done" =>
                  \A o \in Outputs : sent[b][o] = <<"Skip">>

\* C7 witness: a disjoint batch has ended
C7_Witness ==
    \E b \in Batches :
        /\ DisjointBoxes(watershed_bb[b], global_wgs84_bb)
        /\ task_pc[b] = "done"
        /\ \A o \in Outputs : sent[b][o] = <<"Skip">>

\* the payloads other than None that worker o has taken from its queue
SignalsReceived(o) ==
    {i \in 1..Len(received[o]) : received[o][i] # Close}

\* C8: a worker that has returned has counted every Item and Skip it
\* received, has merged every Item and holds no buffered path.
C8_AllSignalsProcessed ==
    \A o \in Outputs :
        st_pc[o] = "done" =>
            /\ processed_so_far[o] = Cardinality(SignalsReceived(o))
            /\ \A i \in SignalsReceived(o) :
                  received[o][i].kind = "Item"
                      => received[o][i].path \in MergedBy(o)
            /\ stitch_buffer_list[o] = <<>>

\* C8 witness: MaxMessages payloads, a Skip among them, a flush above the
\* threshold and a last flush of the rest
C8_Witness ==
    /\ st_pc[TheOutput] = "done"
    /\ processed_so_far[TheOutput] = MaxMessages
    /\ \E i \in SignalsReceived(TheOutput) : received[TheOutput][i] = Skip
    /\ Len(mosaic[global_stitch_raster_path(TheOutput)])
          > N_TO_BUFFER_STITCH + 1

\* ---- the batcher
RECURSIVE TotalFids(_, _)
TotalFids(list, n) ==
    IF n = 0 THEN 0 ELSE Len(list[n].fids) + TotalFids(list, n - 1)

\* the regions of the returned batches, as <<collection, fid>>
EmittedRegions(list) ==
    UNION {{<<list[i].collection, list[i].fids[j]>> :
               j \in 1..Len(list[i].fids)} : i \in 1..Len(list)}

\* C3: when the batcher returns, every region it read is in exactly one
\* returned batch or was logged as dropped.
C3_EveryRegionAccounted ==
    batch_pc = "done" =>
        /\ regions_read =
              EmittedRegions(sorted_watershed_path_list) \cup dropped_log
        /\ TotalFids(sorted_watershed_path_list,
                     Len(sorted_watershed_path_list))
              = Cardinality(EmittedRegions(sorted_watershed_path_list))

\* C4: no batch handed to the subset task holds more than 1000 regions.
C4_AtMost1000Regions ==
    \A i \in 1..Len(watershed_path_area_list) :
        Len(watershed_path_area_list[i].fids) <= 1000

\* C9: the returned list is the list of all batches in descending order of
\* area, whatever collection a batch comes from.
C9_SortedByAreaDescending ==
    batch_pc = "done" =>
        /\ Len(sorted_watershed_path_list) = Len(watershed_path_area_list)
        /\ \A i \in 1..Len(watershed_path_area_list) :
              \E j \in 1..Len(sorted_watershed_path_list) :
                  sorted_watershed_path_list[j] = watershed_path_area_list[i]
        /\ \A i, j \in 1..Len(sorted_watershed_path_list) :
              i < j => sorted_watershed_path_list[i].area
                          >= sorted_watershed_path_list[j].area

\* C9 witness: a later collection contributed a batch larger than one of an
\* earlier collection
C9_Witness ==
    /\ batch_pc = "done"
    /\ \E i, j \in 1..Len(watershed_path_area_list) :
          /\ i < j
          /\ watershed_path_area_list[i].collection
                # watershed_path_area_list[j].collection
          /\ watershed_path_area_list[i].area
                < watershed_path_area_list[j].area

\* C10: no two batches of a run carry the same job id.
C10_UniqueJobIds ==
    /\ \A i, j \in 1..Len(watershed_path_area_list) :
          i # j => watershed_path_area_list[i].path[1]
                      # watershed_path_area_list[j].path[1]
    /\ \A i, j \in 1..Len(sorted_watershed_path_list) :
          i # j => sorted_watershed_path_list[i].path[1]
                      # sorted_watershed_path_list[j].path[1]

\* C10 witness: a run returned batches of two collections, two of them of
\* the same collection
C10_Witness ==
    /\ batch_pc = "done"
    /\ \E i, j, k \in 1..Len(sorted_watershed_path_list) :
          /\ i # j
          /\ sorted_watershed_path_list[i].collection
                = sorted_watershed_path_list[j].collection
          /\ sorted_watershed_path_list[k].collection
                # sorted_watershed_path_list[i].collection

\* an envelope that lies partly inside and partly outside the filter box
CrossesBox(bb, gbb) ==
    /\ gbb # NoBB
    /\ ~DisjointBoxes(bb, gbb)
    /\ \/ bb[1] < gbb[1]
       \/ bb[3] > gbb[3]
       \/ bb[2] < gbb[2]
       \/ bb[4] > gbb[4]

\* C11: a region whose envelope crosses the filter box, on whichever side,
\* is in no batch built or returned.
C11_CrossingRegionDropped ==
    \A r \in regions_read :
        CrossesBox(EnvelopeOf(r[2]), global_bb) =>
            /\ r \notin EmittedRegions(watershed_path_area_list)
            /\ r \notin EmittedRegions(sorted_watershed_path_list)

\* C12: a second call with the same inputs adds no task for a subset file
\* that is on disk and returns the list the first call returned, which holds
\* no entry twice.
C12_RerunIsNoOp ==
    /\ \A i, j \in 1..Len(subset_task_calls) :
          i # j => subset_task_calls[i] # subset_task_calls[j]
    /\ (run_no = 2 /\ batch_pc = "done") =>
          /\ sorted_watershed_path_list = first_result
          /\ \A i, j \in 1..Len(sorted_watershed_path_list) :
                i # j => sorted_watershed_path_list[i]
                            # sorted_watershed_path_list[j]

\* C12 witness: the batcher ran twice over the same two regions and
\* returned two batches both times
C12_Witness ==
    /\ run_no = 2
    /\ batch_pc = "done"
    /\ n_read >= 2
    /\ Len(sorted_watershed_path_list) >= 2
    /\ Len(subset_task_calls) = Len(sorted_watershed_path_list)

\* the batches of the returned list that hold region r = <<collection, fid>>
BatchesOf(r) ==
    {i \in 1..Len(sorted_watershed_path_list) :
        /\ sorted_watershed_path_list[i].collection = r[1]
        /\ \E j \in 1..Len(sorted_watershed_path_list[i].fids) :
              sorted_watershed_path_list[i].fids[j] = r[2]}

\* the grid cell of a region's centroid
CellOf(fid) == <<Clamp(FeatureOf(fid).cx), Clamp(FeatureOf(fid).cy)>>

ZoneOf(fid) == get_utm_zone(FeatureOf(fid).cx, FeatureOf(fid).cy)

IsSmall(fid) == FeatureOf(fid).area <= SqDegree

\* a call that returned, with minimum area 0, no filter box, no selected
\* subset and no layer long enough to fill a job
PlainRun ==
    /\ batch_pc = "done"
    /\ min_watershed_area = 0
    /\ global_bb = NoBB
    /\ ~watershed_subset
    /\ \A c \in 1..Len(layers) : layers[c].bulk = 0

\* every region above one square degree is alone in a batch of its own
LargeAreSingletons ==
    \A r \in regions_read :
        ~IsSmall(r[2]) =>
            /\ Cardinality(BatchesOf(r)) = 1
            /\ \A i \in BatchesOf(r) :
                  sorted_watershed_path_list[i].fids = <<r[2]>>

\* the layer of two 0.1 square degree regions of one cell and one region of
\* 1.5 square degrees gives [singleton, grid batch]
ScenarioTwoSmallOneLarge ==
    (Len(layers) = 1 /\ regions_read = {<<1, 1>>, <<1, 2>>, <<1, 3>>}) =>
        /\ Len(sorted_watershed_path_list) = 2
        /\ sorted_watershed_path_list[1].fids = <<3>>
        /\ sorted_watershed_path_list[1].area = 1500
        /\ sorted_watershed_path_list[2].fids \in {<<1, 2>>, <<2, 1>>}
        /\ sorted_watershed_path_list[2].area = 200

\* C13 as stated: the small regions of one grid cell are in one batch.
C13_SameCellOneBatch ==
    PlainRun =>
        /\ \A r1, r2 \in regions_read :
              (/\ r1[1] = r2[1]
               /\ IsSmall(r1[2]) /\ IsSmall(r2[2])
               /\ CellOf(r1[2]) = CellOf(r2[2]))
                  => BatchesOf(r1) = BatchesOf(r2) /\ BatchesOf(r1) # {}
        /\ LargeAreSingletons
        /\ ScenarioTwoSmallOneLarge

\* C13 amended: the small regions of one grid cell and one UTM zone are in
\* one batch, every large region is a batch of its own, and the layer of the
\* scenario gives [singleton, grid batch].
C13_SameCellAndZoneOneBatch ==
    PlainRun =>
        /\ \A r1, r2 \in regions_read :
              (/\ r1[1] = r2[1]
               /\ IsSmall(r1[2]) /\ IsSmall(r2[2])
               /\ CellOf(r1[2]) = CellOf(r2[2])
               /\ ZoneOf(r1[2]) = ZoneOf(r2[2]))
                  => /\ BatchesOf(r1) = BatchesOf(r2)
                     /\ Cardinality(BatchesOf(r1)) = 1
        /\ LargeAreSingletons
        /\ ScenarioTwoSmallOneLarge

\* C13 witness: the layer of the scenario was batched
C13_Witness ==
    /\ PlainRun
    /\ Len(layers) = 1
    /\ regions_read = {<<1, 1>>, <<1, 2>>, <<1, 3>>}
    /\ Len(sorted_watershed_path_list) = 2
    /\ sorted_watershed_path_list[1].fids = <<3>>

\* ---- the pipeline without faults
\* no task ends in the sys.exit() of line 733
NoTaskExits ==
    model_kind = "ndr" =>
        \A b \in Batches : DisjointBoxes(watershed_bb[b], global_wgs84_bb)

\* the run has ended: every worker took None after its last flush, the
\* clean worker took None, no queue holds a payload
RunTerminated ==
    /\ main_pc = "done"
    /\ clean_pc = "done"
    /\ signal_done_queue = <<>>
    /\ \A o \in Outputs :
          /\ st_pc[o] = "done"
          /\ stitch_queue[o] = <<>>
          /\ stitch_buffer_list[o] = <<>>
          /\ received[o] # <<>>
          /\ received[o][Len(received[o])] = Close
          /\ \A i \in SignalsReceived(o) :
                received[o][i].kind = "Item"
                    => received[o][i].path \in MergedBy(o)

StitchedByAll(b) == \A o \in Outputs : ResultPath(b, o) \in MergedBy(o)

\* C15: when the run has ended and intermediate files are not kept, every
\* directory holding a result raster of a batch whose rasters were all
\* merged has been removed, wherever the map puts the rasters.
C15_StitchedBatchCleaned ==
    (RunTerminated /\ ~keep_intermediate_files) =>
        \A b \in Batches : StitchedByAll(b) =>
            \A o \in Outputs : dirname(ResultPath(b, o)) \notin dirs

\* ---- failures
\* C16: a run in which a stitch worker died on an exception does not end
\* as a run without failure.
C16_StitchFailureReported ==
    main_pc = "done" => \A o \in Outputs : st_pc[o] # "dead"

\* the directories put on signal_done_queue so far
DirsSignalled ==
    {signal_done_queue[i] : i \in 1..Len(signal_done_queue)}
        \cup DOMAIN count_dict \cup removed \cup reached

\* C18: a task whose model call raised has put nothing on any queue; no
\* worker holds or has merged a raster of its batch and no directory of its
\* batch was acknowledged, counted or removed.
C18_FailedTaskEmitsNothing ==
    \A b \in Batches :
        task_pc[b] = "failed" =>
            /\ \A o \in Outputs :
                  /\ sent[b][o] = <<>>
                  /\ ResultPath(b, o) \notin MergedBy(o)
                  /\ ResultPath(b, o) \notin PendingPaths(o)
            /\ \A d \in DirsSignalled : d[1] # b
            /\ \A d \in Dirs : d[1] = b => rmtree_calls[d] = 0

\* C18 witness: the model call of one batch raised, every worker has taken
\* the raster of another batch from its queue and the thread of _run_sdr
\* has left the join
C18_Witness ==
    \E b1, b2 \in Batches :
        /\ task_pc[b1] = "failed"
        /\ model_calls[b1] = 1
        /\ main_pc = "raised"
        /\ \A o \in Outputs :
              ResultPath(b2, o) \in PathsOf(stitch_buffer_list[o])

\* a model call of the run raised
ModelRaised == \E b \in Batches : task_pc[b] = "failed"

\* every stitch worker and the clean worker have ended
WorkersEnded ==
    /\ \A o \in Outputs : st_pc[o] \in {"done", "dead"}
    /\ clean_pc \in CleanEnded

\* C17: after a model call raised, the run fails at the join and every
\* stitch worker and the clean worker still end.
C17_ModelFailureEndsRun ==
    ModelRaised ~> (main_pc = "raised" /\ WorkersEnded)

\* C19: a merge that raised ends its worker: no second merge, no payload
\* taken from the queue afterwards, nothing more merged or counted.
C19_MergeFailureEndsWorker ==
    /\ [](\A o \in Outputs :
            /\ merge_errors[o] <= 1
            /\ merge_errors[o] = 1 => st_pc[o] = "dead")
    /\ [][\A o \in Outputs :
            st_pc[o] = "dead" =>
                /\ st_pc'[o] = "dead"
                /\ received'[o] = received[o]
                /\ Len(stitch_queue'[o]) >= Len(stitch_queue[o])
                /\ stitch_buffer_list'[o] = stitch_buffer_list[o]
                /\ processed_so_far'[o] = processed_so_far[o]
                /\ mosaic'[global_stitch_raster_path(o)]
                      = mosaic[global_stitch_raster_path(o)]]_vars

\* C19 witness: a worker died in the flush above the threshold and payloads
\* put after that wait in its queue
C19_Witness ==
    /\ st_pc[TheOutput] = "dead"
    /\ merge_errors[TheOutput] = 1
    /\ Len(stitch_buffer_list[TheOutput]) > N_TO_BUFFER_STITCH
    /\ stitch_queue[TheOutput] # <<>>

\* a fault other than a failed removal
OtherFault ==
    \/ \E b \in Batches : task_pc[b] \in {"failed", "exited"}
    \/ \E o \in Outputs : st_pc[o] = "dead"

\* C20: a removal that raised stops nothing but the clean worker: it never
\* makes the run fail and, unless a task or a stitch worker failed, the run
\* ends with every stitch worker closed and _run_sdr returning.
C20_CleanupErrorSwallowed ==
    /\ [](clean_pc = "dead" /\ ~OtherFault => main_pc # "raised")
    /\ <>(OtherFault
           \/ (/\ main_pc = "done"
               /\ clean_pc \in CleanEnded
               /\ \A o \in Outputs : st_pc[o] = "done"))

\* C20 witness: the run ended after a removal raised
C20_Witness ==
    /\ main_pc = "done"
    /\ clean_pc = "dead"
    /\ \E d \in Dirs : rmtree_calls[d] = 1 /\ d \notin removed
    /\ \A o \in Outputs : st_pc[o] = "done"

\* ---- the queues
\* line 473: multiprocessing_manager.Queue() is given no maxsize, which is
\* maxsize 0
SignalDoneQueueSize == 0

\* C21: no queue ever holds more payloads than the maxsize it was created
\* with, the stitch queues and signal_done_queue alike.
C21_AllQueuesBounded ==
    /\ \A o \in Outputs : Len(stitch_queue[o]) <= StitchQueueSize
    /\ Len(signal_done_queue) <= SignalDoneQueueSize

\* ---- a run over enough watershed subsets to fill a stitch queue
MaxQueueTasks == 32

\* _run_sdr over MaxQueueTasks subsets that all overlap the global box, on a
\* machine of one CPU: the task graph of line 1036 has cpu_count() workers
InitQueue ==
    /\ model_kind = "sdr"
    /\ target_stitch_raster_map = [o \in Outputs |-> "root"]
    /\ keep_intermediate_files = FALSE
    /\ watershed_bb = [b \in 1..MaxQueueTasks |-> <<2, 2, 4, 4>>]
    /\ TasksAdded(1..MaxQueueTasks)
    /\ WorkersStarted
    /\ BatchIdle

\* the tasks and the stitch workers while task_graph.join() waits
NextQueue ==
    \/ \E b \in Tasks : Running = {} /\ StartTask(b)
    \/ \E b \in Tasks : RunModel(b, TRUE)
    \/ \E b \in Tasks : TaskPut(b)
    \/ \E o \in Outputs : StitchGet(o)
    \/ \E o \in Outputs : StitchMerge(o, TRUE)

SpecQueue == InitQueue /\ [][NextQueue]_vars

\* the queues from the one task b puts on next up to the queue of output o
QueuesBefore(b, o) == {p \in Outputs : task_next[b] <= p /\ p <= o}

\* C22: while the worker of output A merges and A's queue is full, a task
\* that still has to put on the queue of another output B, which has room,
\* gets to that put without waiting for A's worker.
C22_SlowOutputBlocksNoOther ==
    \A b \in Tasks : \A A, B \in Outputs :
        (/\ A # B
         /\ Merging(A)
         /\ QueueFull(stitch_queue[A], StitchQueueSize)
         /\ task_pc[b] \in PutStates
         /\ sent[b][B] = <<>>
         /\ ~QueueFull(stitch_queue[B], StitchQueueSize))
            => \A p \in QueuesBefore(b, B) :
                  ~QueueFull(stitch_queue[p], StitchQueueSize)

\* ---- the NDR task
\* C23: a task whose batch overlaps the global box and that has ended has
\* aligned once and called the model once and, unless the model raised, has
\* put one Item on every queue, for NDR as for SDR.
C23_NdrTaskAlignsRunsEmits ==
    \A b \in Batches :
        (/\ ~DisjointBoxes(watershed_bb[b], global_wgs84_bb)
         /\ task_pc[b] \in TaskTerminal)
            => /\ align_calls[b] = 1
               /\ model_calls[b] = 1
               /\ task_pc[b] # "failed" =>
                     \A o \in Outputs : sent[b][o] = <<"Item">>

\* ---- flushes of a stitch worker
\* number of places of sequence seq that hold x
Occurrences(seq, x) == Cardinality({i \in 1..Len(seq) : seq[i] = x})

\* the Item paths worker o has taken from its queue
ItemsReceived(o) ==
    {received[o][i].path : i \in {j \in 1..Len(received[o]) :
                                     received[o][j].kind = "Item"}}

\* C24, in every state: an Item is merged and acknowledged at most once;
\* the worker that has returned has merged and acknowledged every Item it
\* received exactly once and holds nothing.
MergedAndAckedOnce ==
    \A o \in Outputs : \A path \in ItemsReceived(o) :
        /\ Occurrences(mosaic[global_stitch_raster_path(o)], path) <= 1
        /\ Occurrences(signal_done_queue, dirname(path)) <= 1
        /\ st_pc[o] = "done" =>
              /\ Occurrences(mosaic[global_stitch_raster_path(o)], path) = 1
              /\ Occurrences(signal_done_queue, dirname(path)) = 1
              /\ stitch_buffer_list[o] = <<>>

\* C24, in every step: a flush starts exactly when the payload just taken
\* leaves more than N_TO_BUFFER_STITCH paths in the buffer or is None; a
\* merge that returns has merged the whole buffer in buffer order, has put
\* the directory of every path of the buffer on signal_done_queue once, and
\* has cleared the buffer.
FlushStep ==
    \A o \in Outputs :
        LET buf == stitch_buffer_list[o]
            m == global_stitch_raster_path(o)
        IN
        /\ (st_pc[o] = "get" /\ Merging(o)') <=>
              (/\ Len(received'[o]) = Len(received[o]) + 1
               /\ \/ Len(stitch_buffer_list'[o]) > N_TO_BUFFER_STITCH
                  \/ received'[o][Len(received'[o])] = Close)
        /\ (Merging(o) /\ st_pc'[o] \in {"get", "done"}) =>
              /\ mosaic'[m] = mosaic[m] \o [i \in 1..Len(buf) |-> buf[i].path]
              /\ signal_done_queue' = signal_done_queue
                    \o [i \in 1..Len(buf) |-> dirname(buf[i].path)]
              /\ stitch_buffer_list'[o] = <<>>
        /\ ~Merging(o) => mosaic'[m] = mosaic[m]

\* C24: flush exactly above the threshold or on None, one bulk merge, one
\* acknowledgment per merged path, buffer cleared; every Item merged once
\* and acknowledged once.
C24_FlushMergesAcksClears == []MergedAndAckedOnce /\ [][FlushStep]_vars

\* C24 witness: a worker has returned after a flush above the threshold and
\* a last flush, every path acknowledged
C24_Witness ==
    /\ st_pc[TheOutput] = "done"
    /\ Len(signal_done_queue) >= N_TO_BUFFER_STITCH + 2
    /\ Len(signal_done_queue) = Cardinality(ItemsReceived(TheOutput))
    /\ Len(mosaic[global_stitch_raster_path(TheOutput)])
          = Len(signal_done_queue)

\* ---- skipped batches
\* C25, in every step: a worker that takes a Skip adds one to its counter
\* and changes nothing else: buffer, global raster and position unchanged,
\* no flush started, nothing put on signal_done_queue.
SkipStep ==
    \A o \in Outputs :
        (/\ Len(received'[o]) = Len(received[o]) + 1
         /\ received'[o][Len(received'[o])] = Skip)
            => /\ processed_so_far'[o] = processed_so_far[o] + 1
               /\ stitch_buffer_list'[o] = stitch_buffer_list[o]
               /\ mosaic' = mosaic
               /\ writers' = writers
               /\ st_pc'[o] = st_pc[o]
               /\ signal_done_queue' = signal_done_queue
               /\ UNCHANGED <<clean_vars, fs_vars>>

\* C25, in every state: no directory of a batch that does not overlap the
\* global box is acknowledged, counted or removed, and no raster of it is
\* buffered or merged.
SkippedNeverCounted ==
    \A b \in Batches :
        DisjointBoxes(watershed_bb[b], global_wgs84_bb) =>
            /\ \A d \in DirsSignalled : d[1] # b
            /\ \A d \in Dirs : d[1] = b => rmtree_calls[d] = 0
            /\ \A o \in Outputs :
                  /\ ResultPath(b, o) \notin MergedBy(o)
                  /\ ResultPath(b, o) \notin PendingPaths(o)

\* C25: a Skip only advances the counter of the worker; the skipped batch
\* stays ended and its directory is never counted or removed.
C25_SkipOnlyCounts ==
    /\ []SkippedNeverCounted
    /\ [][SkipStep]_vars
    /\ [][\A b \in Batches : task_pc[b] = "done" => task_pc'[b] = "done"]_vars

\* C25 witness: the run has ended, every worker counted the Skip of a batch
\* that does not overlap, and the directory of another batch was removed
C25_Witness ==
    /\ main_pc = "done"
    /\ removed # {}
    /\ \E b \in Batches :
          /\ DisjointBoxes(watershed_bb[b], global_wgs84_bb)
          /\ task_pc[b] = "done"
          /\ \A o \in Outputs :
                /\ Occurrences(received[o], Skip) = 1
                /\ processed_so_far[o] = 2

\* ---- None, the last payload of every queue
\* everything put on the queue of output o so far, in order
Channel(o) == received[o] \o stitch_queue[o]

\* C26: None is put on a stitch queue once, after every task has returned,
\* and nothing is put behind it; None is put on signal_done_queue once,
\* after every stitch worker has ended, nothing is put behind it, and the
\* clean worker that takes it leaves nothing in the queue.
C26_CloseIsLast ==
    /\ \A o \in Outputs :
          /\ Occurrences(Channel(o), Close) <= 1
          /\ Occurrences(Channel(o), Close) = 1 =>
                /\ Channel(o)[Len(Channel(o))] = Close
                /\ \A b \in Batches : task_pc[b] = "done"
          /\ st_pc[o] = "done" => stitch_queue[o] = <<>>
    /\ Occurrences(signal_done_queue, NoneDir) <= 1
    /\ Occurrences(signal_done_queue, NoneDir) = 1 =>
          /\ signal_done_queue[Len(signal_done_queue)] = NoneDir
          /\ \A o \in Outputs : st_pc[o] \in {"done", "dead"}
          /\ clean_pc # "done"
    /\ clean_pc = "done" =>
          /\ signal_done_queue = <<>>
          /\ \A o \in Outputs : st_pc[o] \in {"done", "dead"}

\* C26 witness: the run has ended, every worker took None after an Item and
\* a Skip, the clean worker took None after the acknowledgments
C26_Witness ==
    /\ main_pc = "done"
    /\ clean_pc = "done"
    /\ reached # {}
    /\ \A o \in Outputs :
          /\ Len(received[o]) = MaxBatches + 1
          /\ received[o][Len(received[o])] = Close
          /\ Occurrences(received[o], Skip) >= 1

\* ---- order of the merges
\* pixels of the global raster followed by the model
NPixels == 3

Pixels == 0..(NPixels - 1)

\* the pixels the result raster of batch b has data for: every raster
\* shares a pixel with the raster of the next batch
Footprint(b) == {b % NPixels, (b + 1) % NPixels}

Covers(path, px) == px \in Footprint(path[1])

\* value of a pixel no raster was stitched into
NoData == <<>>

\* overlap_algorithm='replace' (line 841): the rasters of seq from the i-th
\* on stitched one after the other over value v of pixel px; a raster that
\* covers the pixel replaces what is there
RECURSIVE StitchPixel(_, _, _, _)
StitchPixel(seq, i, px, v) ==
    IF i > Len(seq) THEN v
    ELSE StitchPixel(seq, i + 1, px, IF Covers(seq[i], px) THEN seq[i] ELSE v)

\* the Item paths of a sequence of payloads, in the order of the sequence
RECURSIVE ItemPaths(_)
ItemPaths(seq) ==
    IF seq = <<>> THEN <<>>
    ELSE IF Head(seq).kind = "Item"
    THEN <<Head(seq).path>> \o ItemPaths(Tail(seq))
    ELSE ItemPaths(Tail(seq))

\* the Item that covers pixel px and was taken from the queue last
LastArrived(o, px) ==
    LET items == ItemPaths(received[o])
        covering == {i \in 1..Len(items) : Covers(items[i], px)}
    IN IF covering = {} THEN NoData
       ELSE items[CHOOSE i \in covering : \A j \in covering : j <= i]

\* C27: the rasters merged into the global raster of an output are, in
\* order, the first Items its worker took from the queue; when the worker
\* has returned every pixel holds the value of the Item covering it that was
\* taken last.
C27_MergedInArrivalOrder ==
    \A o \in Outputs :
        LET m == mosaic[global_stitch_raster_path(o)]
            items == ItemPaths(received[o])
        IN /\ Len(m) <= Len(items)
           /\ m = SubSeq(items, 1, Len(m))
           /\ st_pc[o] = "done" =>
                 \A px \in Pixels :
                     StitchPixel(m, 1, px, NoData) = LastArrived(o, px)

\* C27 witness: the worker has returned after two flushes and a pixel
\* covered by Items of both flushes holds the value of an Item of the second
C27_Witness ==
    /\ st_pc[TheOutput] = "done"
    /\ \E px \in Pixels :
          LET m == mosaic[global_stitch_raster_path(TheOutput)] IN
          /\ Len(m) > N_TO_BUFFER_STITCH + 1
          /\ \E i \in 1..(N_TO_BUFFER_STITCH + 1) : Covers(m[i], px)
          /\ StitchPixel(m, 1, px, NoData) = m[Len(m)]

\* ---- singleton batches and grid batches
\* job id c-th-basename_fid
SingletonId(c, fid) == watershed_basename(c) \o <<fid>>

\* job_id is a grid job id of the cell and zone of feature f:
\* basename_x_y_n_epsg for some n
IsGridIdOf(job_id, c, f) ==
    LET base == watershed_basename(c) \o <<Clamp(f.cx), Clamp(f.cy)>> IN
    /\ Len(job_id) = Len(base) + 2
    /\ SubSeq(job_id, 1, Len(base)) = base
    /\ job_id[Len(job_id)] = get_utm_zone(f.cx, f.cy)

\* region fid of collection c, member of a batch with this job id and these
\* members, is where the claim puts it
RightlyPlaced(c, fid, job_id, fids) ==
    LET f == FeatureOf(fid) IN
    IF f.area > SqDegree \/ watershed_subset
    THEN job_id = SingletonId(c, fid) /\ fids = <<fid>>
    ELSE IsGridIdOf(job_id, c, f) /\ job_id # SingletonId(c, fid)

\* C28: every region read and not dropped is in one batch accumulator of
\* its collection; a batch, accumulated or returned, holds a region alone
\* under the job id of its feature id exactly when the region is larger
\* than one square degree or a subset is selected, and under the grid job
\* id of its centroid otherwise.
C28_SingletonIffLargeOrSelected ==
    /\ batch_pc = "layer" =>
          \A fid \in layer_read :
              <<collection, fid>> \notin dropped_log =>
                  Cardinality({i \in 1..Len(watershed_fid_index) :
                      \E j \in 1..Len(watershed_fid_index[i].fids) :
                          watershed_fid_index[i].fids[j] = fid}) = 1
    /\ batch_pc = "layer" =>
          \A i \in 1..Len(watershed_fid_index) :
              LET e == watershed_fid_index[i] IN
              \A j \in 1..Len(e.fids) :
                  RightlyPlaced(collection, e.fids[j], e.key[1], e.fids)
    /\ batch_pc = "done" =>
          \A i \in 1..Len(sorted_watershed_path_list) :
              LET e == sorted_watershed_path_list[i] IN
              \A j \in 1..Len(e.fids) :
                  RightlyPlaced(e.collection, e.fids[j], e.path[1], e.fids)

\* C28 witness: with no subset selected a call returned a singleton batch
\* of a large region and a grid batch that holds one small region
C28_Witness ==
    /\ batch_pc = "done"
    /\ ~watershed_subset
    /\ \E i, j \in 1..Len(sorted_watershed_path_list) :
          LET a == sorted_watershed_path_list[i]
              b == sorted_watershed_path_list[j]
          IN /\ Len(a.fids) = 1 /\ ~IsSmall(a.fids[1])
             /\ a.path[1] = SingletonId(a.collection, a.fids[1])
             /\ Len(b.fids) = 1 /\ IsSmall(b.fids[1])
             /\ IsGridIdOf(b.path[1], b.collection, FeatureOf(b.fids[1]))

\* ---- batches dropped as too small
\* the emitted batches of collection c that carry job id key
EmittedFor(c, key) ==
    {i \in 1..Len(watershed_path_area_list) :
        /\ watershed_path_area_list[i].collection = c
        /\ watershed_path_area_list[i].path[1] = key[1]}

\* C29: once the jobs of a collection were emitted without a job id seen
\* twice, a batch accumulator of the collection has no emitted batch exactly
\* when it has fewer than 3 envelopes and its area is below the minimum;
\* any other has one emitted batch with its members and area, whose subset
\* file is on disk; the returned list holds every emitted batch.
C29_DroppedIffFewAndSmall ==
    /\ (batch_pc \in {"glob", "done"} /\ collection >= 1) =>
          \A i \in 1..Len(watershed_fid_index) :
              LET e == watershed_fid_index[i]
                  out == EmittedFor(collection, e.key)
              IN IF Len(e.envs) < 3 /\ e.area < min_watershed_area
                 THEN out = {}
                 ELSE /\ Cardinality(out) = 1
                      /\ \A k \in out :
                            LET b == watershed_path_area_list[k] IN
                            /\ b.fids = e.fids
                            /\ b.area = e.area
                            /\ b.path \in subset_files \cup subset_tasks_pending
                            /\ batch_pc = "done" => b.path \in subset_files
    /\ batch_pc = "done" =>
          /\ Len(sorted_watershed_path_list) = Len(watershed_path_area_list)
          /\ \A k \in 1..Len(watershed_path_area_list) :
                Occurrences(sorted_watershed_path_list,
                            watershed_path_area_list[k]) = 1

\* C29 witness: with a minimum of half a square degree a call has dropped
\* the grid batch of one small region and returned the batch of a large one
C29_Witness ==
    /\ batch_pc = "done"
    /\ min_watershed_area > 0
    /\ Len(sorted_watershed_path_list) = 1
    /\ \E i, j \in 1..Len(watershed_fid_index) :
          /\ Len(watershed_fid_index[i].envs) = 1
          /\ watershed_fid_index[i].area < min_watershed_area
          /\ EmittedFor(collection, watershed_fid_index[i].key) = {}
          /\ watershed_fid_index[j].area >= min_watershed_area
          /\ EmittedFor(collection, watershed_fid_index[j].key) # {}

\* ---- the accumulators of the batches
\* sum of the areas of the regions fids[lo] .. fids[hi]
RECURSIVE SumOfAreas(_, _, _)
SumOfAreas(fids, lo, hi) ==
    IF lo > hi THEN 0
    ELSE IF lo = hi THEN FeatureOf(fids[lo]).area
    ELSE LET mid == (lo + hi) \div 2
         IN SumOfAreas(fids, lo, mid) + SumOfAreas(fids, mid + 1, hi)

\* C30, in every state: an accumulator has one envelope per fid, the
\* envelope of that fid, and the sum of the areas of its fids; a region
\* dropped at the filter box is in no accumulator of its collection.
AccumulatorsInStep ==
    /\ \A i \in 1..Len(watershed_fid_index) :
          LET e == watershed_fid_index[i] IN
          /\ Len(e.fids) = Len(e.envs)
          /\ \A j \in 1..Len(e.fids) : e.envs[j] = EnvelopeOf(e.fids[j])
          /\ e.area = SumOfAreas(e.fids, 1, Len(e.fids))
    /\ batch_pc = "layer" =>
          \A r \in dropped_log : r[1] = collection =>
              \A i \in 1..Len(watershed_fid_index) :
                  \A j \in 1..Len(watershed_fid_index[i].fids) :
                      watershed_fid_index[i].fids[j] # r[2]

\* C30, in every step: reading a region that is dropped leaves every
\* accumulator that was there as it was; an accumulator the step creates
\* is empty.
DropStep ==
    (/\ batch_pc = "layer" /\ batch_pc' = "layer"
     /\ \E fid \in layer_read' \ layer_read :
           <<collection, fid>> \in dropped_log') =>
        /\ Len(watershed_fid_index') >= Len(watershed_fid_index)
        /\ \A i \in 1..Len(watershed_fid_index') :
              IF i <= Len(watershed_fid_index)
              THEN watershed_fid_index'[i] = watershed_fid_index[i]
              ELSE watershed_fid_index'[i]
                      = NewEntry(watershed_fid_index'[i].key)

\* C30: a drop at the filter box takes out the fid of the dropped region
\* and nothing else, and the fids, envelopes and area of every accumulator
\* stay in step.
C30_DropKeepsAccumulators == []AccumulatorsInStep /\ [][DropStep]_vars

\* C30 witness: a region was dropped from a grid batch that already held
\* two regions, which are still there with their envelopes and area
C30_Witness ==
    /\ batch_pc = "layer"
    /\ \E r \in dropped_log : \E i \in 1..Len(watershed_fid_index) :
          /\ r[1] = collection
          /\ IsGridIdOf(watershed_fid_index[i].key[1], collection,
                        FeatureOf(r[2]))
          /\ Len(watershed_fid_index[i].fids) = 2
          /\ Len(watershed_fid_index[i].envs) = 2
          /\ \A fid \in layer_read : fid <= r[2]

\* ---- the clean worker when intermediate files are kept
\* C31, in every state of a run that keeps intermediate files: rmtree was
\* never called, nothing was removed, the clean worker did not leave on an
\* exception, and a directory whose count reached the number of outputs has
\* no entry in count_dict.
KeptNothingRemoved ==
    keep_intermediate_files =>
        /\ removed = {}
        /\ \A d \in Dirs : rmtree_calls[d] = 0
        /\ clean_pc # "dead"
        /\ \A d \in reached : d \notin DOMAIN count_dict
        /\ \A d \in DOMAIN count_dict :
              count_dict[d] >= 1 /\ count_dict[d] < expected_signal_count

\* C31, in every step of such a run: no directory and no file goes away;
\* the clean worker that takes a directory adds one to its count, or drops
\* the entry when the count reaches the number of outputs.
KeptCountStep ==
    keep_intermediate_files =>
        /\ dirs \subseteq dirs'
        /\ files \subseteq files'
        /\ (/\ signal_done_queue # <<>>
            /\ signal_done_queue' = Tail(signal_done_queue)
            /\ Head(signal_done_queue) # NoneDir) =>
              LET d == Head(signal_done_queue)
                  n == DictGet(count_dict, d) + 1
              IN IF n = expected_signal_count
                 THEN /\ d \notin DOMAIN count_dict'
                      /\ d \in reached'
                      /\ \A x \in DOMAIN count_dict' :
                            count_dict'[x] = count_dict[x]
                 ELSE /\ count_dict' = DictSet(count_dict, d, n)
                      /\ reached' = reached

AllSubsetsMaterialized ==
    /\ subset_tasks_pending = {}
    /\ \A i \in 1..Len(watershed_path_area_list) :
          watershed_path_area_list[i].path \in subset_files

TokenWriteStep ==
    /\ (~done_token /\ done_token') => AllSubsetsMaterialized
    /\ (batch_pc = "raised" \/ batch_pc' = "raised") =>
          done_token' = done_token

\* C32: whenever the token appears every subset file of every emitted
\* batch is on disk with no task pending, and a raising call leaves the
\* token as it was
C32_TokenAfterSubsetsJoined ==
    /\ [](run_no = 1 /\ done_token => AllSubsetsMaterialized)
    /\ [][TokenWriteStep]_vars

C32_Witness ==
    /\ run_no = 1
    /\ done_token
    /\ Len(sorted_watershed_path_list) >= 2
    /\ Len(subset_task_calls) >= 2
    /\ AllSubsetsMaterialized

(***************************************************************************)
(* C33: every emitted batch holds at least one region.                     *)
(***************************************************************************)
\* C33: no batch of the emitted list has an empty fid list, whatever the
\* filter box dropped and whatever the minimum area is
C33_EveryBatchHasRegion ==
    \A i \in 1..Len(watershed_path_area_list) :
        Len(watershed_path_area_list[i].fids) >= 1

(***************************************************************************)
(* C34: the sizes of a stitch worker's buffer and of its queue.            *)
(***************************************************************************)
\* C34: a buffer never holds more than N_TO_BUFFER_STITCH + 1 paths, holds
\* at most N_TO_BUFFER_STITCH while its worker waits on get(), and a stitch
\* queue never holds more than 2 * N_TO_BUFFER_STITCH payloads
C34_BufferAndQueueBounded ==
    \A o \in Outputs :
        /\ Len(stitch_buffer_list[o]) <= N_TO_BUFFER_STITCH + 1
        /\ st_pc[o] = "get" =>
              Len(stitch_buffer_list[o]) <= N_TO_BUFFER_STITCH
        /\ Len(stitch_queue[o]) <= 2 * N_TO_BUFFER_STITCH

C34_Witness ==
    \E o, p, q \in Outputs :
        /\ Len(stitch_buffer_list[o]) = N_TO_BUFFER_STITCH + 1
        /\ Len(stitch_queue[p]) = 2 * N_TO_BUFFER_STITCH
        /\ st_pc[q] = "get"
        /\ Len(stitch_buffer_list[q]) = N_TO_BUFFER_STITCH

(***************************************************************************)
(* C35: the directories of the buffer a stitch worker failed to merge.     *)
(***************************************************************************)
\* the directories of the paths left in the buffer of a dead worker
FailedBufferDirs(o) ==
    IF st_pc[o] # "dead" THEN {}
    ELSE {dirname(stitch_buffer_list[o][i].path) :
             i \in 1..Len(stitch_buffer_list[o])}

\* acknowledgments of directory d sent so far, taken or not
AcksSent(d) == Occurrences(signal_done_queue, d) + DictGet(count_dict, d)

FailedBufferKept ==
    \A o \in Outputs :
        /\ \A i \in 1..Len(stitch_buffer_list[o]) :
              st_pc[o] = "dead" =>
                  stitch_buffer_list[o][i].path \notin MergedBy(o)
        /\ \A d \in FailedBufferDirs(o) :
              /\ AcksSent(d) < expected_signal_count
              /\ d \notin reached
              /\ d \notin removed
              /\ rmtree_calls[d] = 0
              /\ d \in dirs

FailedMergeStep ==
    \A o \in Outputs :
        (st_pc[o] # "dead" /\ st_pc'[o] = "dead") =>
            signal_done_queue' = signal_done_queue

\* C35: a worker whose merge failed has acknowledged no path of the buffer
\* it failed on; the directory of each such path never collects as many
\* acknowledgments as there are outputs and is never removed
C35_FailedBufferNeverCleaned ==
    []FailedBufferKept /\ [][FailedMergeStep]_vars

\* C35 witness: the run has ended without keeping intermediate files, a
\* worker died on a buffer of two paths, the other worker acknowledged both
\* directories and the clean worker counted them
C35_Witness ==
    /\ main_pc = "done"
    /\ ~keep_intermediate_files
    /\ clean_pc = "done"
    /\ \E o \in Outputs :
          /\ st_pc[o] = "dead"
          /\ Cardinality(FailedBufferDirs(o)) = 2
          /\ \A d \in FailedBufferDirs(o) : DictGet(count_dict, d) = 1

(***************************************************************************)
(* C36: the clean worker after an rmtree that raised.                      *)
(***************************************************************************)
\* the directories whose rmtree raised
FailedDeletions == {d \in Dirs : rmtree_calls[d] > 0 /\ d \notin removed}

IsPrefix(s, t) == Len(s) <= Len(t) /\ SubSeq(t, 1, Len(s)) = s

AfterFailedDeletion ==
    FailedDeletions # {} =>
        /\ clean_pc = "dead"
        /\ Cardinality(FailedDeletions) = 1
        /\ \A d \in FailedDeletions :
              /\ rmtree_calls[d] = 1
              /\ DictGet(count_dict, d) = expected_signal_count

AfterFailedDeletionStep ==
    FailedDeletions # {} =>
        /\ IsPrefix(signal_done_queue, signal_done_queue')
        /\ count_dict' = count_dict
        /\ removed' = removed
        /\ rmtree_calls' = rmtree_calls
        /\ dirs \subseteq dirs'
        /\ files \subseteq files'

\* C36: once an rmtree has raised the clean worker is gone: nothing is taken
\* from signal_done_queue any more, no count changes, no directory or file
\* goes away, and the count of the directory that failed stays in count_dict
C36_CleanerStopsAtFirstFailure ==
    []AfterFailedDeletion /\ [][AfterFailedDeletionStep]_vars

\* C36 witness: the run has ended after an rmtree raised; another directory
\* got all its acknowledgments, the last of them is still in the queue and
\* the directory is still on disk
C36_Witness ==
    /\ main_pc = "done"
    /\ FailedDeletions # {}
    /\ \E d \in Dirs \ FailedDeletions :
          /\ Occurrences(signal_done_queue, d) >= 1
          /\ Occurrences(signal_done_queue, d) + DictGet(count_dict, d)
                = expected_signal_count
          /\ d \in dirs
          /\ d \notin removed

(***************************************************************************)
(* C37: the values of count_dict, and count_dict when None arrives.        *)
(***************************************************************************)
\* lines 1071-1080: every output of sdr_target_stitch_raster_map is a file
\* of the workspace directory itself
SdrOutputsMap == [o \in Outputs |-> "root"]

\* nothing has failed in the run so far
NoFailureSoFar ==
    /\ \A b \in Tasks : task_pc[b] \notin {"failed", "exited"}
    /\ \A o \in Outputs : st_pc[o] # "dead" /\ merge_errors[o] = 0
    /\ clean_pc # "dead"
    /\ main_pc # "raised"

\* C37: every entry of count_dict is at least 1, and below the number of
\* outputs while the clean worker waits for its next directory; in an SDR
\* run in which nothing failed count_dict is empty once None was taken
C37_CountsBelowExpectedAndEmptyAtClose ==
    /\ \A d \in DOMAIN count_dict :
          /\ count_dict[d] >= 1
          /\ clean_pc = "run" => count_dict[d] < NOutputs
    /\ (/\ clean_pc = "done"
        /\ model_kind = "sdr"
        /\ target_stitch_raster_map = SdrOutputsMap
        /\ NoFailureSoFar) => DOMAIN count_dict = {}

\* C37 witness: an SDR run without failure has ended; the directories of two
\* batches were counted up to the number of outputs and count_dict is empty
C37_Witness ==
    /\ clean_pc = "done"
    /\ main_pc = "done"
    /\ model_kind = "sdr"
    /\ target_stitch_raster_map = SdrOutputsMap
    /\ NoFailureSoFar
    /\ Cardinality(reached) = 2
    /\ DOMAIN count_dict = {}

====
